---- MODULE Spec2Model ----
(***************************************************************************)
(* Model of tests_scripts.py: the Vagrant workspace lifecycle manager.     *)
(*                                                                         *)
(* State: the command line (cfg), the part of the filesystem the program   *)
(* touches (dirs, files), the module-level list WORKSPACES, one Workspace  *)
(* and one worker position per box (wsdir, pc, code), the stack of running *)
(* signal handler / destroy() activations on the main thread (hs), and the *)
(* process exit status.  cmds is a history variable: per workspace, the    *)
(* external commands started in its directory, in the order of starting.   *)
(* proc is one call of run_cmd looked at from the inside (RunCmdSpec); the *)
(* lifecycles see a call of run_cmd only by its result.                    *)
(*                                                                         *)
(* A step of the model is one blocking call or one filesystem operation    *)
(* whose interleaving with another thread matters, together with the       *)
(* thread-local code that follows it up to the next such point.            *)
(*                                                                         *)
(* Paths are sequences of "/"-separated components; a box identifier is    *)
(* the sequence of its components ("n/x" is <<"n","x">>), so that          *)
(* pathlib's "/" operator is sequence concatenation.                       *)
(***************************************************************************)
EXTENDS Integers, Sequences, FiniteSets, TLC

\* ---------------------------------------------------------------- bounds
MaxBoxes == 2
MaxParallel == 2
MaxSignals == 1

\* ------------------------------------------------------------- constants
\* run_cmd's sentinel status on timeout (line 64)
TimeoutStatus == -1

\* proc.wait(timeout=600), line 60
WaitTimeout == 600

\* ------------------------------------------------------------------ paths
WorkdirPath == <<"W">>
TmpRoot == <<"tmp">>
TmpNames == <<"vg-test-1", "vg-test-2", "vg-test-3", "vg-test-4">>
BoxNames == <<"a", "b", "c", "d">>
NamespacedBox == <<"n", "x">>
DestroyBox == <<"destroy">>

IsPrefix(p, q) == Len(p) <= Len(q) /\ SubSeq(q, 1, Len(p)) = p

\* Path.mkdir(parents=True, exist_ok=True)
MkdirParents(ds, p) == ds \cup {SubSeq(p, 1, k) : k \in 1..Len(p)}

\* shutil.rmtree(p) on the directories / on the files <<parent, name>>
RmTreeDirs(ds, p) == {d \in ds : ~IsPrefix(p, d)}
RmTreeFiles(fs, p) == {f \in fs : ~IsPrefix(p, f[1])}

Front(s) == SubSeq(s, 1, Len(s) - 1)

\* ------------------------------------------------------------------ state
VARIABLES cfg, mpc, exitStatus, dirs, files, WORKSPACES, wsdir, pc, code,
          marker, cmds, hs, sigs, mexc, proc

vars == <<cfg, mpc, exitStatus, dirs, files, WORKSPACES, wsdir, pc, code,
          marker, cmds, hs, sigs, mexc, proc>>

TaskIds == 1..MaxBoxes

\* line 159: up()'s local `code` has no value until run_cmd has returned;
\* this stands for "not assigned" and is no status run_cmd can give
Unbound == 2

\* no call of run_cmd is being looked at
ProcIdle == [pc |-> "idle", t |-> 0, eof |-> 0, exit |-> 0, rcode |-> 0, w0 |-> 0,
             killed |-> FALSE, ret |-> 0]

\* ----------------------------------------------------------- command line
\* box lists: n different boxes (their names do not matter), or one box with
\* a namespaced name
BoxLists == {[k \in 1..n |-> <<BoxNames[k]>>] : n \in 1..MaxBoxes} \cup {<<NamespacedBox>>}

ProvCombos == {<<"none", "none">>, <<"none", "missing">>, <<"shell", "file">>}

UpConfigs ==
    {[action |-> "up", vagrant |-> TRUE, script |-> "file", boxsrc |-> "boxes",
      boxes |-> b, provisioner |-> pv[1], provpath |-> pv[2], parallel |-> n,
      cleanup |-> c, workdir |-> w] :
        b \in BoxLists, pv \in ProvCombos, n \in 1..MaxParallel,
        c \in BOOLEAN, w \in {"none", "exists", "absent"}}

\* line 265: Workspace("destroy", Path(), None, [], False, "", Path(workdir));
\* Path() is the current directory
DestroyConfigs ==
    {[action |-> "destroy", vagrant |-> TRUE, script |-> "dir", boxsrc |-> "box",
      boxes |-> <<DestroyBox>>, provisioner |-> "none", provpath |-> "none",
      parallel |-> 1, cleanup |-> FALSE, workdir |-> w] :
        w \in {"exists", "absent"}}

\* command lines main() rejects before any workspace is created
ErrorConfigs ==
    {[action |-> "up", vagrant |-> e[1], script |-> e[2], boxsrc |-> e[3],
      boxes |-> <<>>, provisioner |-> "none", provpath |-> "none",
      parallel |-> 1, cleanup |-> FALSE, workdir |-> "none"] :
        e \in {<<FALSE, "file", "box">>, <<TRUE, "missing", "box">>,
               <<TRUE, "file", "nofile">>, <<TRUE, "file", "none">>}}

\* lines 119, 164: the other combinations of --provisioner and
\* --provision-path, on one box
ProvisionConfigs ==
    {[action |-> "up", vagrant |-> TRUE, script |-> "file", boxsrc |-> "boxes",
      boxes |-> << <<BoxNames[1]>> >>, provisioner |-> pv[1], provpath |-> pv[2],
      parallel |-> 1, cleanup |-> c, workdir |-> "none"] :
        pv \in {<<"shell", "none">>, <<"ansible", "file">>, <<"ansible", "none">>,
                <<"none", "file">>},
        c \in BOOLEAN}

Configs == UpConfigs \cup ProvisionConfigs \cup DestroyConfigs \cup ErrorConfigs

NTasks == Len(cfg.boxes)
Tasks == 1..NTasks
Parallel == cfg.parallel > 1

InitDirs(c) == {TmpRoot} \cup (IF c.workdir = "exists" THEN {WorkdirPath} ELSE {})

Init ==
    /\ cfg \in Configs
    /\ mpc = "start"
    /\ exitStatus = "running"
    /\ dirs = InitDirs(cfg)
    /\ files = {}
    /\ WORKSPACES = <<>>
    /\ wsdir = [i \in Tasks |-> <<>>]
    /\ pc = [i \in Tasks |-> "idle"]
    /\ code = [i \in Tasks |-> Unbound]
    /\ marker = [i \in Tasks |-> FALSE]
    /\ cmds = [i \in Tasks |-> <<>>]
    /\ hs = <<>>
    /\ sigs = 0
    /\ mexc = FALSE
    /\ proc = ProcIdle

\* ------------------------------------------------------------- main()
\* lines 208-248: the checks that end the process with status 1
ConfigError(c) ==
    \/ ~c.vagrant
    \/ c.action = "up" /\ (c.script = "missing" \/ c.boxsrc \in {"nofile", "none"})

MainStart ==
    /\ mpc = "start" /\ exitStatus = "running" /\ hs = <<>>
    /\ IF ConfigError(cfg)
       THEN exitStatus' = "1" /\ mpc' = mpc
       ELSE exitStatus' = exitStatus /\ mpc' = "run"
    /\ UNCHANGED <<proc, cfg, dirs, files, WORKSPACES, wsdir, pc, code, marker, cmds, hs,
                   sigs, mexc>>

\* ------------------------------------------------- worker(box): scheduling
\* "returned": up returned; "raised": an exception left up; "noinit": an
\* exception left Workspace()
Finished(i) == pc[i] \in {"returned", "raised", "noinit"}
Active == {i \in Tasks : pc[i] # "idle" /\ ~Finished(i)}

\* a pool without max_workers: every submitted task gets a thread at once
MayStartUnbounded(i) ==
    /\ pc[i] = "idle"
    /\ \A j \in Tasks : j < i => pc[j] # "idle"
    /\ Parallel \/ (hs = <<>> /\ ~mexc /\ mpc = "run"
                    /\ \A j \in Tasks : j < i => pc[j] = "returned")

\* sequential: lines 261-262, one box after the other on the main thread;
\* parallel: lines 258-259, at most max_workers tasks at a time, in order
MayStart(i) ==
    /\ pc[i] = "idle"
    /\ \A j \in Tasks : j < i => pc[j] # "idle"
    /\ IF Parallel
       THEN Cardinality(Active) < cfg.parallel
       ELSE /\ hs = <<>> /\ ~mexc /\ mpc = "run"
            /\ \A j \in Tasks : j < i => pc[j] = "returned"

\* a worker thread runs concurrently with a handler on the main thread; in
\* sequential mode the main thread is the worker and a handler suspends it
MayStep(i) ==
    /\ i \in Tasks
    /\ exitStatus = "running" /\ mpc \in {"run", "exiting"}
    /\ Parallel \/ hs = <<>>

\* a command is started with workspace i's directory as working directory
Issue(i, c) == [cmds EXCEPT ![i] = Append(@, c)]

\* worker(box) ends: by returning, or by an exception leaving it.  In
\* sequential mode an exception (or a pending SystemExit) ends main() with
\* status 1; in the pool the future keeps the exception and nobody reads it.
EndTask(i, how) ==
    /\ pc' = [pc EXCEPT ![i] = how]
    /\ exitStatus' = IF ~Parallel /\ (how # "returned" \/ mexc) THEN "1" ELSE exitStatus

\* code and marker are locals of up(): the create command's status and whether
\* its output held the import-error marker; they end with the call
DropLocals(i) ==
    /\ code' = [code EXCEPT ![i] = Unbound]
    /\ marker' = [marker EXCEPT ![i] = FALSE]

\* ------------------------------------------------- Workspace.__init__
Box(i) == cfg.boxes[i]
TmpDir(i) == TmpRoot \o <<TmpNames[i]>>

\* lines 91-96: workdir / box when workdir is a directory and box is non-empty,
\* workdir itself otherwise; a fresh temporary directory without --workdir
ResolveDir(workdir, box, ds, i) ==
    IF workdir # "none"
    THEN IF WorkdirPath \in ds /\ box # <<>> THEN WorkdirPath \o box ELSE WorkdirPath
    ELSE TmpDir(i)

\* line 93 (workdir.is_dir() is read) or line 96 (mkdtemp creates the directory)
WsResolve(i) ==
    /\ i \in Tasks
    /\ exitStatus = "running" /\ mpc \in {"run", "exiting"} /\ MayStart(i)
    /\ LET d == ResolveDir(cfg.workdir, Box(i), dirs, i) IN
         /\ wsdir' = [wsdir EXCEPT ![i] = d]
         /\ IF cfg.workdir = "none"
            THEN dirs' = dirs \cup {d} /\ pc' = [pc EXCEPT ![i] = "logs"]
            ELSE dirs' = dirs /\ pc' = [pc EXCEPT ![i] = "mkdir"]
    /\ UNCHANGED <<proc, cfg, mpc, exitStatus, files, WORKSPACES, code, marker, cmds, hs,
                   sigs, mexc>>

\* line 94
WsMkdir(i) ==
    /\ MayStep(i) /\ pc[i] = "mkdir"
    /\ dirs' = MkdirParents(dirs, wsdir[i])
    /\ pc' = [pc EXCEPT ![i] = "logs"]
    /\ UNCHANGED <<proc, cfg, mpc, exitStatus, files, WORKSPACES, wsdir, code, marker, cmds,
                   hs, sigs, mexc>>

\* a constructor that registers without looking at the cleanup flag
RegisterAlways(reg, i, cleanup) == Append(reg, i)

\* lines 99-100
Register(reg, i, cleanup) == IF cleanup THEN Append(reg, i) ELSE reg

\* lines 102-109: shutil.copy raises when the source is a directory or a
\* provision path that does not exist
CopyRaises(script, provpath) == script = "dir" \/ provpath = "missing"

\* the activation of VagrantManager.destroy() that main() starts at line 267
EntryFrame == [kind |-> "entry", snap |-> <<1>>, idx |-> 1, dpc |-> "loop",
               exc |-> FALSE, done |-> {}, errs |-> {}]

\* lines 97-110: logs_dir.mkdir(exist_ok=True) needs its parent; the workspace
\* registers itself; the script and the provision path are copied.  On
\* success worker() goes on to mgr.up (line 255) or main() to mgr.destroy
\* (line 267).
WsPopulate(i) ==
    /\ MayStep(i) /\ pc[i] = "logs"
    /\ IF wsdir[i] \notin dirs
       THEN /\ EndTask(i, "noinit")
            /\ UNCHANGED <<dirs, files, WORKSPACES, hs>>
       ELSE /\ dirs' = dirs \cup {wsdir[i] \o <<"logs">>}
            /\ WORKSPACES' = Register(WORKSPACES, i, cfg.cleanup)
            /\ files' = files
                 \cup (IF cfg.script = "file" THEN {<<wsdir[i], "script">>} ELSE {})
                 \cup (IF cfg.script # "dir" /\ cfg.provpath = "file"
                       THEN {<<wsdir[i], "prov">>} ELSE {})
            /\ IF CopyRaises(cfg.script, cfg.provpath)
               THEN EndTask(i, "noinit") /\ hs' = hs
               ELSE /\ exitStatus' = exitStatus
                    /\ IF cfg.action = "up"
                       THEN pc' = [pc EXCEPT ![i] = "vf"] /\ hs' = hs
                       ELSE pc' = [pc EXCEPT ![i] = "indestroy"] /\ hs' = <<EntryFrame>>
    /\ UNCHANGED <<proc, cfg, mpc, wsdir, code, marker, cmds, sigs, mexc>>

\* ------------------------------------------------- Workspace.write_vagrantfile
\* lines 119-131: a provisioning directive is written only when a provisioner
\* kind and a provision path are both given
EmitsDirective(provisioner, provpath) ==
    provisioner \in {"shell", "ansible"} /\ provpath # "none"

\* ------------------------------------------------------------- run_cmd
\* lines 40-66: what a call gives back: the child's status, the sentinel on
\* timeout, or an exception (the pipe's text cannot be decoded, line 56)
RunCmdStatus == {0, 1, TimeoutStatus}
CreateOutcomes == {[code |-> 0, marker |-> FALSE], [code |-> 1, marker |-> FALSE],
                   [code |-> 1, marker |-> TRUE],
                   [code |-> TimeoutStatus, marker |-> FALSE]}

\* line 45: Popen(cwd=...) raises when the working directory does not exist
PopenOk(i) == wsdir[i] \in dirs

\* ------------------------------------------------------ VagrantManager.up
\* <logs_dir>/<box>_up.log and <box>_script_output.log live in this directory
LogParent(i) == wsdir[i] \o <<"logs">> \o Front(Box(i))

\* lines 154-159: the Vagrantfile is written and the create command started;
\* an exception goes to the except clause and on to the finally
UpBegin(i) ==
    /\ MayStep(i) /\ pc[i] = "vf"
    /\ IF PopenOk(i)
       THEN /\ files' = files \cup {<<wsdir[i], "Vagrantfile">>}
            /\ cmds' = Issue(i, "up")
            /\ pc' = [pc EXCEPT ![i] = "create"]
       ELSE /\ pc' = [pc EXCEPT ![i] = "fin"]
            /\ UNCHANGED <<files, cmds>>
    /\ UNCHANGED <<proc, cfg, mpc, exitStatus, dirs, WORKSPACES, wsdir, code, marker, hs,
                   sigs, mexc>>

\* lines 161-168: what follows the create command once its log is written
AfterCreate(c, provisioner) ==
    IF c # 0 THEN "fin" ELSE IF provisioner = "none" THEN "ssh" ELSE "fin"

\* lines 159-168: run_cmd gives the create command's result back (or
\* raises), the log is written, and on success without a provisioner the
\* remote script command is started
CreateReturn(i) ==
    /\ MayStep(i) /\ pc[i] = "create"
    /\ \/ \E o \in CreateOutcomes :
            LET nxt == AfterCreate(o.code, cfg.provisioner) IN
            /\ code' = [code EXCEPT ![i] = o.code]
            /\ marker' = [marker EXCEPT ![i] = o.marker]
            /\ IF LogParent(i) \in dirs
               THEN /\ files' = files \cup {<<LogParent(i), "up.log">>}
                    /\ pc' = [pc EXCEPT ![i] = nxt]
                    /\ cmds' = IF nxt = "ssh" THEN Issue(i, "ssh") ELSE cmds
               ELSE /\ pc' = [pc EXCEPT ![i] = "fin"]
                    /\ UNCHANGED <<files, cmds>>
       \/ /\ pc' = [pc EXCEPT ![i] = "fin"]
          /\ UNCHANGED <<code, marker, files, cmds>>
    /\ UNCHANGED <<proc, cfg, mpc, exitStatus, dirs, WORKSPACES, wsdir, hs, sigs, mexc>>

\* lines 168-169: run_cmd gives the remote script command's result back
\* (code_s is never read) or raises; its log is written
SshReturn(i) ==
    /\ MayStep(i) /\ pc[i] = "ssh"
    /\ \/ /\ \E c \in RunCmdStatus : TRUE
          /\ files' = IF LogParent(i) \in dirs
                      THEN files \cup {<<LogParent(i), "script_output.log">>}
                      ELSE files
       \/ files' = files
    /\ pc' = [pc EXCEPT ![i] = "fin"]
    /\ UNCHANGED <<proc, cfg, mpc, exitStatus, dirs, WORKSPACES, wsdir, code, marker, cmds,
                   hs, sigs, mexc>>

\* a finally clause that goes to cleanup_workspace without the destroy command
FinallyTeardownFirst(i) ==
    /\ MayStep(i) /\ pc[i] = "fin"
    /\ IF cfg.cleanup
       THEN /\ pc' = [pc EXCEPT ![i] = IF wsdir[i] \in dirs THEN "td_rm" ELSE "td_unreg"]
            /\ UNCHANGED <<exitStatus, code, marker, cmds>>
       ELSE EndTask(i, "returned") /\ DropLocals(i) /\ cmds' = cmds
    /\ UNCHANGED <<proc, cfg, mpc, dirs, files, WORKSPACES, wsdir, hs, sigs, mexc>>

\* lines 174-180: the finally clause; its run_cmd is outside any try
Finally(i) ==
    /\ MayStep(i) /\ pc[i] = "fin"
    /\ IF cfg.cleanup
       THEN IF PopenOk(i)
            THEN /\ pc' = [pc EXCEPT ![i] = "destroy"]
                 /\ cmds' = Issue(i, "destroy")
                 /\ UNCHANGED <<exitStatus, code, marker>>
            ELSE EndTask(i, "raised") /\ DropLocals(i) /\ cmds' = cmds
       ELSE EndTask(i, "returned") /\ DropLocals(i) /\ cmds' = cmds
    /\ UNCHANGED <<proc, cfg, mpc, dirs, files, WORKSPACES, wsdir, hs, sigs, mexc>>

\* lines 180-181, 138: run_cmd gives the destroy command's result back
\* (ignored) or raises; cleanup_workspace looks whether the directory exists
DestroyReturn(i) ==
    /\ MayStep(i) /\ pc[i] = "destroy"
    /\ \/ /\ \E c \in RunCmdStatus : TRUE
          /\ pc' = [pc EXCEPT ![i] = IF wsdir[i] \in dirs THEN "td_rm" ELSE "td_unreg"]
          /\ UNCHANGED <<exitStatus, code, marker>>
       \/ EndTask(i, "raised") /\ DropLocals(i)
    /\ UNCHANGED <<proc, cfg, mpc, dirs, files, WORKSPACES, wsdir, cmds, hs, sigs, mexc>>

\* ------------------------------------------------ Workspace.cleanup_workspace
\* line 139: rmtree raises when the directory went away after the check
TeardownRm(i) ==
    /\ MayStep(i) /\ pc[i] = "td_rm"
    /\ IF wsdir[i] \in dirs
       THEN /\ dirs' = RmTreeDirs(dirs, wsdir[i])
            /\ files' = RmTreeFiles(files, wsdir[i])
            /\ pc' = [pc EXCEPT ![i] = "td_unreg"]
            /\ UNCHANGED <<exitStatus, code, marker>>
       ELSE /\ EndTask(i, "raised") /\ DropLocals(i)
            /\ UNCHANGED <<dirs, files>>
    /\ UNCHANGED <<proc, cfg, mpc, WORKSPACES, wsdir, cmds, hs, sigs, mexc>>

\* a teardown without lines 141-142
UnregisterNever(reg, i) == reg

\* lines 141-142
Unregister(reg, i) == SelectSeq(reg, LAMBDA x : x # i)

\* lines 141-142, and up returns
TeardownUnreg(i) ==
    /\ MayStep(i) /\ pc[i] = "td_unreg"
    /\ WORKSPACES' = Unregister(WORKSPACES, i)
    /\ EndTask(i, "returned") /\ DropLocals(i)
    /\ UNCHANGED <<proc, cfg, mpc, dirs, files, wsdir, cmds, hs, sigs, mexc>>

\* ------------------------------------------------------ signals, sys.exit
\* An activation of cleanup_handler (or, kind "entry", of the destroy() that
\* main() calls) on the main thread: snap is list(WORKSPACES) of line 27, idx
\* the position of the loop, dpc where destroy() stands ("loop": not in it,
\* "cmd": its command is running, "frm": between lines 202 and 203), exc
\* whether a SystemExit is waiting for destroy()'s finally clause to end,
\* done the workspaces destroy() was called on, errs those where it raised.
Top == hs[Len(hs)]
Target(f) == f.snap[f.idx]
SetTop(f) == [hs EXCEPT ![Len(hs)] = f]
NextInLoop(f) == [f EXCEPT !.idx = @ + 1, !.dpc = "loop", !.exc = FALSE]

\* lines 36-37: SIGINT or SIGTERM arrives and cleanup_handler starts on the
\* main thread, whatever that thread was doing (a running handler included)
Signal ==
    /\ exitStatus = "running" /\ mpc \in {"start", "run"} /\ sigs < MaxSignals
    /\ sigs' = sigs + 1
    /\ hs' = Append(hs, [kind |-> "handler", snap |-> WORKSPACES, idx |-> 1,
                         dpc |-> "loop", exc |-> FALSE, done |-> {}, errs |-> {}])
    /\ UNCHANGED <<proc, cfg, mpc, exitStatus, dirs, files, WORKSPACES, wsdir, pc, code,
                   marker, cmds, mexc>>

\* SystemExit travels down the activations it interrupted: one that is inside
\* destroy()'s try block (lines 189-196) runs the finally clause first, the
\* others are left at once
RECURSIVE Unwind(_, _)
Unwind(s, ds) ==
    IF s = <<>> THEN <<>>
    ELSE LET f == s[Len(s)] IN
         IF f.dpc = "cmd" /\ wsdir[Target(f)] \in ds
         THEN [s EXCEPT ![Len(s)] = [f EXCEPT !.dpc = "frm", !.exc = TRUE]]
         ELSE Unwind(Front(s), ds)

\* SystemExit reaches the code the first signal interrupted.  With the pool,
\* main() was waiting for the workers and now leaves.  Without, the main thread
\* was in worker(): inside up()'s try block the finally clause runs before the
\* exception goes on (pc "vf" and "fin" are the edges of the try block: either
\* side is possible); anywhere else the process ends.
SysExitMain ==
    IF mpc = "start"
    THEN exitStatus' = "1" /\ UNCHANGED <<mpc, pc, mexc>>
    ELSE IF Parallel
    THEN mpc' = "exiting" /\ UNCHANGED <<exitStatus, pc, mexc>>
    ELSE \/ \E i \in Active :
              /\ pc[i] \in {"vf", "create", "ssh", "fin"}
              /\ pc' = [pc EXCEPT ![i] = "fin"]
              /\ mexc' = TRUE
              /\ UNCHANGED <<mpc, exitStatus>>
         \/ /\ \A i \in Active : pc[i] \notin {"create", "ssh"}
            /\ exitStatus' = "1"
            /\ UNCHANGED <<mpc, pc, mexc>>

AfterPop(s) ==
    /\ hs' = s
    /\ IF s = <<>> THEN SysExitMain ELSE UNCHANGED <<mpc, exitStatus, pc, mexc>>

MayHandle == exitStatus = "running" /\ hs # <<>>

\* ------------------------------------------------ VagrantManager.destroy
DestroyOutcomes == {"zero", "nonzero", "timeout", "raise"}

\* lines 28-30 and 185-194: destroy() is called on the next workspace of the
\* snapshot; without its directory it returns, with it the command is started
HEnter ==
    /\ MayHandle /\ Top.dpc = "loop" /\ Top.idx <= Len(Top.snap)
    /\ LET f == Top
           t == Target(f)
           g == [f EXCEPT !.done = @ \cup {t}] IN
         IF wsdir[t] \in dirs
         THEN /\ hs' = SetTop([g EXCEPT !.dpc = "cmd"])
              /\ cmds' = Issue(t, "h_destroy")
         ELSE /\ hs' = SetTop(NextInLoop(g))
              /\ cmds' = cmds
    /\ UNCHANGED <<proc, cfg, mpc, exitStatus, dirs, files, WORKSPACES, wsdir, pc, code,
                   marker, sigs, mexc>>

\* lines 194-202: run_cmd gives the destroy command's result back or raises;
\* the log is written (an exception when the directory is gone); the except
\* clause takes any exception; the finally clause looks for the directory
HCmdReturn ==
    /\ MayHandle /\ Top.dpc = "cmd"
    /\ \E o \in DestroyOutcomes :
         LET t == Target(Top)
             persisted == o # "raise" /\ wsdir[t] \in dirs IN
         /\ dirs' = IF persisted THEN dirs \cup {wsdir[t] \o <<"logs">>} ELSE dirs
         /\ files' = IF persisted
                     THEN files \cup {<<wsdir[t] \o <<"logs">>, "destroy.log">>}
                     ELSE files
         /\ hs' = SetTop(IF wsdir[t] \in dirs
                         THEN [Top EXCEPT !.dpc = "frm"]
                         ELSE NextInLoop(Top))
    /\ UNCHANGED <<proc, cfg, mpc, exitStatus, WORKSPACES, wsdir, pc, code, marker, cmds,
                   sigs, mexc>>

\* a loop without lines 31-32: an exception of destroy() ends it
AfterRaiseAbort(f) ==
    [f EXCEPT !.errs = @ \cup {Target(f)}, !.idx = Len(f.snap) + 1,
              !.dpc = "loop", !.exc = FALSE]

\* lines 31-32: the handler's loop takes an exception of destroy() and goes on
AfterRaise(f) == NextInLoop([f EXCEPT !.errs = @ \cup {Target(f)}])

\* line 203: rmtree, which raises when the directory went away after the
\* check of line 202.  destroy() is over: the handler's loop takes the
\* exception and goes on, main() does not; a waiting SystemExit goes on down.
HRm ==
    /\ MayHandle /\ Top.dpc = "frm"
    /\ LET f == Top
           t == Target(f)
           there == wsdir[t] \in dirs IN
         /\ dirs' = IF there THEN RmTreeDirs(dirs, wsdir[t]) ELSE dirs
         /\ files' = IF there THEN RmTreeFiles(files, wsdir[t]) ELSE files
         /\ IF f.exc
            THEN AfterPop(Unwind(Front(hs), dirs'))
            ELSE IF f.kind = "entry" /\ ~there
            THEN /\ hs' = <<>> /\ exitStatus' = "1"
                 /\ pc' = [pc EXCEPT ![t] = "raised"]
                 /\ UNCHANGED <<mpc, mexc>>
            ELSE /\ hs' = SetTop(IF there THEN NextInLoop(f) ELSE AfterRaise(f))
                 /\ UNCHANGED <<mpc, exitStatus, pc, mexc>>
    /\ UNCHANGED <<proc, cfg, WORKSPACES, wsdir, code, marker, cmds, sigs>>

\* line 33: the loop is over and sys.exit(1) raises SystemExit; or destroy()
\* has returned to main(), which ends with status 0
HExit ==
    /\ MayHandle /\ Top.dpc = "loop" /\ Top.idx > Len(Top.snap)
    /\ IF Top.kind = "handler"
       THEN AfterPop(Unwind(Front(hs), dirs))
       ELSE /\ hs' = <<>> /\ exitStatus' = "0"
            /\ pc' = [pc EXCEPT ![1] = "returned"]
            /\ UNCHANGED <<mpc, mexc>>
    /\ UNCHANGED <<proc, cfg, dirs, files, WORKSPACES, wsdir, code, marker, cmds, sigs>>

\* main() ends.  Line 262 or 259 done: status 0.  After SystemExit in
\* pool mode the interpreter joins the worker threads before it ends; the
\* join that the exception interrupted marks its thread as stopped, so one
\* worker may still be inside its task when the process ends with status 1.
MainExit ==
    /\ exitStatus = "running" /\ hs = <<>> /\ cfg.action = "up"
    /\ IF mpc = "exiting"
       THEN /\ \A i \in Tasks : pc[i] # "idle"
            /\ Cardinality(Active) <= 1
            /\ exitStatus' = "1"
       ELSE /\ mpc = "run" /\ ~mexc
            /\ \A i \in Tasks : IF Parallel THEN Finished(i) ELSE pc[i] = "returned"
            /\ exitStatus' = "0"
    /\ UNCHANGED <<proc, cfg, mpc, dirs, files, WORKSPACES, wsdir, pc, code, marker, cmds,
                   hs, sigs, mexc>>

Next ==
    \/ MainStart
    \/ MainExit
    \/ Signal
    \/ HEnter
    \/ HCmdReturn
    \/ HRm
    \/ HExit
    \/ \E i \in TaskIds : WsResolve(i)
    \/ \E i \in TaskIds : WsMkdir(i)
    \/ \E i \in TaskIds : WsPopulate(i)
    \/ \E i \in TaskIds : UpBegin(i)
    \/ \E i \in TaskIds : CreateReturn(i)
    \/ \E i \in TaskIds : SshReturn(i)
    \/ \E i \in TaskIds : Finally(i)
    \/ \E i \in TaskIds : DestroyReturn(i)
    \/ \E i \in TaskIds : TeardownRm(i)
    \/ \E i \in TaskIds : TeardownUnreg(i)

Spec == Init /\ [][Next]_vars
\* ------------------------------------------------------------ properties
InUp(p) == p \in {"vf", "create", "ssh", "fin", "destroy", "td_rm", "td_unreg"}
Registered(reg, i) == \E k \in 1..Len(reg) : reg[k] = i
Count(s, c) == Cardinality({k \in 1..Len(s) : s[k] = c})
Has(s, c) == Count(s, c) > 0
Destroys(s) == Count(s, "destroy") + Count(s, "h_destroy")

\* C1: with the cleanup flag, whenever up returns the workspace directory does
\* not exist and the Workspace is not in the registry
C1_UpReturnsClean ==
    [][\A i \in Tasks :
         (cfg.cleanup /\ InUp(pc[i]) /\ pc'[i] = "returned")
            => (wsdir[i] \notin dirs' /\ ~Registered(WORKSPACES', i))]_vars

\* C2: for every cleanup-enabled workspace whose create command was started,
\* no destroy command is issued while the create command is running, and when
\* the process has ended a destroy command was issued and the directory is
\* gone
C2_ReclaimedOnExit ==
    /\ [][\A i \in Tasks :
            (cfg.cleanup /\ pc[i] = "create")
               => Destroys(cmds'[i]) = Destroys(cmds[i])]_vars
    /\ [](exitStatus # "running" =>
            \A i \in Tasks :
              (cfg.cleanup /\ Has(cmds[i], "up"))
                 => /\ Destroys(cmds[i]) > 0
                    /\ wsdir[i] \notin dirs)

\* an activation of cleanup_handler is at line 33
AtSysExit(f) == f.kind = "handler" /\ f.dpc = "loop" /\ f.idx > Len(f.snap)

\* C3: an activation of cleanup_handler that reaches sys.exit has called
\* destroy() on every workspace of its snapshot, whether or not one of the
\* calls raised; the process does not end while a handler is running; and
\* after a signal it does not end with status 0
C3_HandlerAttemptsAll ==
    /\ \A k \in 1..Len(hs) :
         AtSysExit(hs[k]) => \A n \in 1..Len(hs[k].snap) : hs[k].snap[n] \in hs[k].done
    /\ hs # <<>> => exitStatus = "running"
    /\ sigs > 0 => exitStatus \in {"running", "1"}

\* a handler is at sys.exit after destroy() raised for the first of the two
\* workspaces of its snapshot and was called for the second nevertheless
C3_Witness ==
    /\ hs # <<>> /\ AtSysExit(Top)
    /\ Len(Top.snap) = 2
    /\ Top.snap[1] \in Top.errs
    /\ Top.done = {1, 2}

\* C4: once the create command has failed with the import-error marker in its
\* output, the cached image is removed and added again and the create command
\* is run a second time, before the lifecycle goes on
C4_RetryOnMarker ==
    \A i \in Tasks :
      (marker[i] /\ code[i] \in RunCmdStatus \ {0} /\ pc[i] # "create")
         => (Count(cmds[i], "up") = 2 /\ Has(cmds[i], "box remove")
             /\ Has(cmds[i], "box add"))

\* C5: a cleanup-enabled lifecycle whose create command failed without the
\* marker ends with one create command, no remote script command, exactly one
\* destroy command and its directory removed
C5_FailedCreateStops ==
    [][\A i \in Tasks :
         (cfg.cleanup /\ code[i] \in RunCmdStatus \ {0} /\ ~marker[i] /\ InUp(pc[i])
            /\ pc'[i] \in {"returned", "raised"})
            => /\ Count(cmds'[i], "up") = 1
               /\ ~Has(cmds'[i], "ssh")
               /\ Destroys(cmds'[i]) = 1
               /\ wsdir[i] \notin dirs']_vars

\* destroy() has found its directory and this step ends it
DestroyEnds ==
    /\ hs # <<>> /\ Top.dpc \in {"cmd", "frm"}
    /\ \/ Len(hs') < Len(hs)
       \/ Len(hs') = Len(hs) /\ hs'[Len(hs')].dpc = "loop"

\* C6: a call of destroy() that found the workspace directory ends by
\* returning, not by an exception, and the directory does not exist then
C6_DestroyRemovesDir ==
    [][DestroyEnds =>
         /\ ~(Top.dpc = "frm" /\ wsdir[Target(Top)] \notin dirs)
         /\ wsdir[Target(Top)] \notin dirs']_vars

\* C7: the destroy entry point on a workdir that does not exist starts no
\* command and creates or removes no directory and no file
C7_DestroyAbsentNoEffect ==
    (cfg.action = "destroy" /\ cfg.workdir = "absent")
       => (dirs = InitDirs(cfg) /\ files = {} /\ cmds[1] = <<>>)

\* C8: the destroy entry point on an existing directory D, when no signal
\* arrives, builds a Workspace whose directory is D, the construction does not
\* fail, and when the process has ended the destroy command was run in D and
\* D is removed
C8_DestroyEntryOnDir ==
    (cfg.action = "destroy" /\ cfg.workdir = "exists" /\ sigs = 0)
       => /\ pc[1] \notin {"idle", "mkdir"} => wsdir[1] = WorkdirPath
          /\ pc[1] # "noinit"
          /\ exitStatus # "running"
               => (Has(cmds[1], "h_destroy") /\ WorkdirPath \notin dirs)

\* C9: when an up run without a signal has ended, the lifecycle of every box
\* of the list was started and is over, whatever happened in the lifecycles
\* of the other boxes
C9_EveryBoxRuns ==
    (cfg.action = "up" /\ ~ConfigError(cfg) /\ sigs = 0 /\ exitStatus # "running")
       => \A i \in Tasks : Finished(i)

\* C10: the directories of two workspaces of one run are different and
\* neither lies inside the other
C10_DirsDistinct ==
    \A i, j \in Tasks :
      (i # j /\ wsdir[i] # <<>> /\ wsdir[j] # <<>>) => ~IsPrefix(wsdir[i], wsdir[j])

\* ------------------------------------------- up runs with more boxes than workers
\* the runs of the pool with one box more than MaxParallel workers, when no
\* signal arrives
PoolBoxes == 3
PoolTaskIds == 1..PoolBoxes

PoolConfigs ==
    {[action |-> "up", vagrant |-> TRUE, script |-> "file", boxsrc |-> "boxes",
      boxes |-> [k \in 1..PoolBoxes |-> <<BoxNames[k]>>],
      provisioner |-> pv[1], provpath |-> pv[2], parallel |-> n,
      cleanup |-> c, workdir |-> w] :
        pv \in ProvCombos, n \in 1..MaxParallel, c \in BOOLEAN,
        w \in {"none", "exists", "absent"}}

PoolInit ==
    /\ cfg \in PoolConfigs
    /\ mpc = "start"
    /\ exitStatus = "running"
    /\ dirs = InitDirs(cfg)
    /\ files = {}
    /\ WORKSPACES = <<>>
    /\ wsdir = [i \in Tasks |-> <<>>]
    /\ pc = [i \in Tasks |-> "idle"]
    /\ code = [i \in Tasks |-> Unbound]
    /\ marker = [i \in Tasks |-> FALSE]
    /\ cmds = [i \in Tasks |-> <<>>]
    /\ hs = <<>>
    /\ sigs = 0
    /\ mexc = FALSE
    /\ proc = ProcIdle

PoolNext ==
    \/ MainStart
    \/ MainExit
    \/ \E i \in PoolTaskIds : WsResolve(i)
    \/ \E i \in PoolTaskIds : WsMkdir(i)
    \/ \E i \in PoolTaskIds : WsPopulate(i)
    \/ \E i \in PoolTaskIds : UpBegin(i)
    \/ \E i \in PoolTaskIds : CreateReturn(i)
    \/ \E i \in PoolTaskIds : SshReturn(i)
    \/ \E i \in PoolTaskIds : Finally(i)
    \/ \E i \in PoolTaskIds : DestroyReturn(i)
    \/ \E i \in PoolTaskIds : TeardownRm(i)
    \/ \E i \in PoolTaskIds : TeardownUnreg(i)

\* every external command returns and a thread that can run does run: some
\* enabled step is taken
PoolSpec == PoolInit /\ [][PoolNext]_vars /\ WF_vars(PoolNext)

\* C11: never more lifecycles running than the requested parallelism; with
\* parallelism 1 a lifecycle starts only when all earlier ones are over; with
\* parallelism above 1 all lifecycles are eventually over
C11_PoolBound ==
    /\ [](Cardinality(Active) <= cfg.parallel)
    /\ [](~Parallel => \A i, j \in Tasks : (i < j /\ pc[j] # "idle") => Finished(i))
    /\ (Parallel => <>(\A i \in Tasks : Finished(i)))

\* three boxes on two workers: all three lifecycles are over
C11_Witness ==
    /\ cfg.parallel = 2 /\ NTasks = 3
    /\ \A i \in Tasks : Finished(i)
    /\ \E i \in Tasks : pc[i] = "returned"

\* C12: an up run without a signal ends with a non-zero status exactly when
\* the command line is rejected (vagrant missing, script missing, no box, boxes
\* file missing), whatever happened in the lifecycles
C12_ExitStatus ==
    (cfg.action = "up" /\ sigs = 0 /\ exitStatus # "running")
       => (exitStatus # "0" <=> ConfigError(cfg))

\* ------------------------------------------------ run_cmd from the inside
\* One call of run_cmd (lines 40-66) against a child process.  Time is counted
\* in the units of the timeout from the start of the child (proc.t).  The child
\* is given by the time at which its output stream reaches end of file (eof:
\* it, or a process it started, holds the stream open until then), the time
\* at which it exits by itself (exit) and its status (rcode); Never, a time
\* after the last one looked at, for a time that does not come.
ChildTimes == {1, WaitTimeout, WaitTimeout + 2}
Horizon == 2 * WaitTimeout + 4
Never == Horizon + 1

Children ==
    {[pc |-> "reading", t |-> 0, eof |-> e, exit |-> x, rcode |-> r, w0 |-> 0,
      killed |-> FALSE, ret |-> 0] :
        e \in ChildTimes \cup {Never}, x \in ChildTimes \cup {Never}, r \in {0, 1}}

\* all variables but proc
rest == <<cfg, mpc, exitStatus, dirs, files, WORKSPACES, wsdir, pc, code,
          marker, cmds, hs, sigs, mexc>>

\* lines 45-55: the child is started; the lifecycle around the call stands still
RunCmdInit ==
    /\ proc \in Children
    /\ cfg = [action |-> "up", vagrant |-> TRUE, script |-> "file", boxsrc |-> "box",
              boxes |-> <<<<BoxNames[1]>>>>, provisioner |-> "none",
              provpath |-> "none", parallel |-> 1, cleanup |-> FALSE,
              workdir |-> "none"]
    /\ mpc = "run"
    /\ exitStatus = "running"
    /\ dirs = {TmpRoot, TmpDir(1), TmpDir(1) \o <<"logs">>}
    /\ files = {<<TmpDir(1), "script">>, <<TmpDir(1), "Vagrantfile">>}
    /\ WORKSPACES = <<>>
    /\ wsdir = <<TmpDir(1)>>
    /\ pc = <<"create">>
    /\ code = <<Unbound>>
    /\ marker = <<FALSE>>
    /\ cmds = <<<<"up">>>>
    /\ hs = <<>>
    /\ sigs = 0
    /\ mexc = FALSE

StdoutOpen(p) == p.t < p.eof
ChildAlive(p) == ~p.killed /\ p.t < p.exit

\* lines 56-60: the loop over proc.stdout ends at end of file, not before;
\* proc.wait(timeout=600) starts then
ReadLoopEnds ==
    /\ proc.pc = "reading" /\ ~StdoutOpen(proc)
    /\ proc' = [proc EXCEPT !.pc = "waiting", !.w0 = proc.t]
    /\ UNCHANGED rest

\* lines 60, 66: the child has exited; its status is returned
WaitReturns ==
    /\ proc.pc = "waiting" /\ ~ChildAlive(proc)
    /\ proc' = [proc EXCEPT !.pc = "returned", !.ret = proc.rcode]
    /\ UNCHANGED rest

\* lines 61-64: the wait has lasted 600; the child is killed, -1 is returned
WaitTimesOut ==
    /\ proc.pc = "waiting" /\ ChildAlive(proc)
    /\ proc.t - proc.w0 >= WaitTimeout
    /\ proc' = [proc EXCEPT !.pc = "returned", !.killed = TRUE, !.ret = TimeoutStatus]
    /\ UNCHANGED rest

\* time passes while run_cmd is blocked in the loop or in the wait
Tick ==
    /\ proc.pc \in {"reading", "waiting"} /\ proc.t < Horizon
    /\ proc.pc = "reading" => StdoutOpen(proc)
    /\ proc.pc = "waiting" => (ChildAlive(proc) /\ proc.t - proc.w0 < WaitTimeout)
    /\ proc' = [proc EXCEPT !.t = @ + 1]
    /\ UNCHANGED rest

RunCmdNext == ReadLoopEnds \/ WaitReturns \/ WaitTimesOut \/ Tick

RunCmdSpec == RunCmdInit /\ [][RunCmdNext]_vars

\* C13: once the child has run for longer than the timeout (one unit of slack)
\* without having exited by itself, run_cmd has killed it and has returned
\* the status -1
C13_TimeoutBoundsRuntime ==
    (proc.pc # "idle" /\ proc.t > WaitTimeout + 1
       /\ proc.exit > WaitTimeout + 1)
       => (proc.pc = "returned" /\ proc.killed /\ proc.ret = TimeoutStatus)

\* ---------------------------------------------- up()'s exceptions and order
\* C14: without a signal, no exception leaves VagrantManager.up, whatever
\* step of the sequence raised, and a cleanup-enabled lifecycle that has ended
\* has issued its destroy command and gone through the teardown
C14_UpNeverRaises ==
    (cfg.action = "up" /\ sigs = 0) =>
      \A i \in Tasks :
        /\ pc[i] # "raised"
        /\ (cfg.cleanup /\ pc[i] = "returned") => Has(cmds[i], "destroy")

\* C15: for every box name, the remote script command is run at most once,
\* only without a provisioner, only after a successful create command and
\* only once the create output is in its log; and without a signal, a
\* lifecycle without a provisioner whose create command succeeded has run it
\* when it comes to the finally clause
C15_SshExactlyWhenDue ==
    /\ [](\A i \in Tasks :
            /\ Count(cmds[i], "ssh") <= 1
            /\ Has(cmds[i], "ssh") => cfg.provisioner = "none"
            /\ pc[i] = "ssh" => code[i] = 0
            /\ (sigs = 0 /\ cfg.provisioner = "none" /\ code[i] = 0
                  /\ pc[i] \in {"fin", "destroy", "td_rm", "td_unreg"})
                 => Has(cmds[i], "ssh"))
    /\ [][\A i \in Tasks :
            Count(cmds'[i], "ssh") > Count(cmds[i], "ssh")
               => <<LogParent(i), "up.log">> \in files']_vars

\* ------------------------------------------------------------ the registry
\* C16: in an up run the registry holds no workspace twice; without the
\* cleanup flag it holds none; with the flag it holds every workspace that has
\* come out of its constructor and whose teardown has not been completed, and
\* no workspace that has not reached its constructor's registration or whose
\* up has returned; and the first command in a cleanup-enabled workspace is
\* started when the workspace is in the registry
C16_RegistryExact ==
    /\ [](cfg.action = "up" =>
            \A i \in Tasks :
              /\ Count(WORKSPACES, i) <= 1
              /\ Registered(WORKSPACES, i) =>
                    (cfg.cleanup /\ pc[i] \notin {"idle", "mkdir", "logs", "returned"})
              /\ (cfg.cleanup /\ (InUp(pc[i]) \/ pc[i] = "raised")) =>
                    Registered(WORKSPACES, i))
    /\ [][\A i \in Tasks :
            (cfg.cleanup /\ cmds[i] = <<>> /\ cmds'[i] # <<>>)
               => Registered(WORKSPACES, i)]_vars

\* the first of two cleanup-enabled workspaces has been torn down and has
\* left the registry while the second, registered, runs its create command
C16_Witness ==
    /\ cfg.cleanup /\ NTasks = 2
    /\ pc[1] = "returned" /\ Has(cmds[1], "destroy")
    /\ pc[2] = "create"
    /\ WORKSPACES = <<2>>

\* C17: in an up run the registry is empty when the process has ended after
\* all lifecycles returned without a signal, and when an activation of
\* cleanup_handler comes to sys.exit none of the workspaces it was to destroy
\* is in the registry any more
C17_RegistryDrained ==
    cfg.action = "up" =>
      /\ (exitStatus # "running" /\ sigs = 0 /\ \A i \in Tasks : pc[i] = "returned")
            => WORKSPACES = <<>>
      /\ \A k \in 1..Len(hs) :
            AtSysExit(hs[k]) =>
              \A n \in 1..Len(hs[k].snap) : ~Registered(WORKSPACES, hs[k].snap[n])

\* ------------------------------------------------------ order of the steps
\* the commands up() itself started in workspace i (the handler's are not its)
OwnCmds(i) == SelectSeq(cmds[i], LAMBDA c : c # "h_destroy")
OwnCmdsNext(i) == SelectSeq(cmds'[i], LAMBDA c : c # "h_destroy")
Rank(c) == CASE c = "up" -> 1 [] c = "ssh" -> 2 [] c = "destroy" -> 3 [] OTHER -> 0
InOrder(s) == \A k, l \in 1..Len(s) : k < l => (Rank(s[k]) > 0 /\ Rank(s[k]) < Rank(s[l]))

\* C18: the commands of one lifecycle are started in the order create, remote
\* script, destroy, each at most once and the remote script only after a
\* create; the create command is started with the Vagrantfile written; the
\* teardown is entered only straight after the destroy command; and once the
\* teardown has begun or up has ended the lifecycle starts no command
C18_StepOrder ==
    /\ [](cfg.action = "up" =>
            \A i \in Tasks :
              /\ InOrder(OwnCmds(i))
              /\ Has(cmds[i], "ssh") => Has(cmds[i], "up")
              /\ pc[i] \in {"td_rm", "td_unreg"} =>
                    (OwnCmds(i) # <<>> /\ OwnCmds(i)[Len(OwnCmds(i))] = "destroy"))
    /\ [][\A i \in Tasks :
            /\ Count(cmds'[i], "up") > Count(cmds[i], "up")
                  => <<wsdir[i], "Vagrantfile">> \in files'
            /\ pc[i] \in {"td_rm", "td_unreg", "returned", "raised"}
                  => OwnCmdsNext(i) = OwnCmds(i)]_vars

\* a cleanup-enabled lifecycle has run create, remote script and destroy and
\* has removed its directory in the teardown
C18_Witness ==
    \E i \in Tasks :
      /\ cfg.cleanup /\ pc[i] = "td_unreg"
      /\ cmds[i] = <<"up", "ssh", "destroy">>
      /\ wsdir[i] \notin dirs

\* ------------------------------------------------- without the cleanup flag
\* C19: in an up run without the cleanup flag no destroy command is started
\* in any workspace, by up or by the signal handler; the registry stays empty
\* and so does every snapshot a handler takes; no directory and no file is
\* ever removed; and when up returns (not left by SystemExit), the workspace
\* directory, its logs directory and its Vagrantfile exist
C19_NoImplicitDestroy ==
    /\ []((cfg.action = "up" /\ ~cfg.cleanup) =>
            /\ WORKSPACES = <<>>
            /\ \A k \in 1..Len(hs) : hs[k].snap = <<>>
            /\ \A i \in Tasks : Destroys(cmds[i]) = 0)
    /\ [][(cfg.action = "up" /\ ~cfg.cleanup) =>
            /\ dirs \subseteq dirs' /\ files \subseteq files'
            /\ \A i \in Tasks :
                 (InUp(pc[i]) /\ pc'[i] = "returned" /\ ~mexc) =>
                    /\ wsdir[i] \in dirs'
                    /\ wsdir[i] \o <<"logs">> \in dirs'
                    /\ <<wsdir[i], "Vagrantfile">> \in files']_vars

\* without the cleanup flag a lifecycle has returned with its logs written,
\* and a signal has arrived
C19_Witness ==
    /\ cfg.action = "up" /\ ~cfg.cleanup /\ sigs > 0
    /\ \E i \in Tasks :
         /\ pc[i] = "returned"
         /\ cmds[i] = <<"up", "ssh">>
         /\ <<LogParent(i), "up.log">> \in files
         /\ <<LogParent(i), "script_output.log">> \in files

\* -------------------------------------------- who executes the artifact
\* C20: without a signal, in a lifecycle whose create command returned status
\* 0 and whose create output was written to its log, either the Vagrantfile
\* carries a provisioning directive or up has started the remote script
\* command, and never both
C20_OneMechanism ==
    (cfg.action = "up" /\ sigs = 0) =>
      \A i \in Tasks :
        (/\ code[i] = 0
         /\ pc[i] \in {"ssh", "fin", "destroy", "td_rm", "td_unreg"}
         /\ <<LogParent(i), "up.log">> \in files)
           => (EmitsDirective(cfg.provisioner, cfg.provpath) # Has(cmds[i], "ssh"))
====
